---- MODULE Spec2Model ----
(***************************************************************************)
(* Model of the "chat with PDF" query pipeline, RAG/chatwithpdf/query.js.  *)
(*                                                                         *)
(* The program is one Node.js process.  main() reads a question with a     *)
(* blocking prompt, awaits chatting(question) and calls itself again.      *)
(* chatting() awaits four external calls in a row: the rewriting model     *)
(* (inside transformQuery), the embedding model, the vector store and the  *)
(* generation model.  Every stretch of code between two awaits runs        *)
(* without interruption, so each is one action here.  An external call     *)
(* either returns a value, drawn from a small set, or rejects.  No caller  *)
(* catches a rejection: it unwinds transformQuery, chatting and main, and  *)
(* the process has nothing left to run.                                    *)
(*                                                                         *)
(* RAG/chatwithpdf/index.js is a second program, run before query.js: it   *)
(* loads the document, splits it into chunks, embeds the chunks and stores *)
(* them in the index that query.js reads.  The splitter, the store client  *)
(* and the index itself are libraries and services; they are modelled from *)
(* their contracts.                                                        *)
(***************************************************************************)
EXTENDS Naturals, Integers, Sequences, FiniteSets, TLC

\* ------------------------------------------------------------- bounds
\* Number of turns the user types in one run of the model.
MaxTurns == 2
\* Largest number of matches the vector store returns to one query.
MaxMatches == 2
\* Largest number of vectors the index holds when query.js starts.
MaxIndex == 11
\* Longest document index.js is run on, in characters.
MaxDocLen == 6
\* Largest chunk size the splitter is tried with, beside the one of index.js.
MaxChunkSize == 4
\* Number of SSE connections the MCP server accepts.
MaxSessions == 2
\* Number of POST /messages requests the MCP server gets.
MaxPosts == 2
\* Number of questions the MCP client reads.
MaxAgentRuns == 2
\* Number of answers of the model the MCP client waits for in one runAiAgent.
MaxSteps == 3
\* Number of entries of a vector of the embedding model (768 for
\* text-embedding-004; the model keeps vectors short).
EmbedDim == 2
\* Number of times index.js is run.
MaxRuns == 2

\* ------------------------------------------------------------- constants
\* topK of the query sent to the index.
TopK == 10
\* chunkSize and chunkOverlap given to the text splitter.
ChunkSize == 1000
ChunkOverlap == 200
\* maxConcurrency given to PineconeStore.fromDocuments.
MaxConcurrency == 5
\* Mutant: query.js is left with an embedding model of another generation.
QueryEmbeddingModel_Older == "embedding-001"
\* The model the GoogleGenerativeAIEmbeddings of query.js is built with.
QueryEmbeddingModel == "text-embedding-004"
\* The model the GoogleGenerativeAIEmbeddings of index.js is built with.
IngestEmbeddingModel == "text-embedding-004"

\* ------------------------------------------------------------- inputs
\* What the user may type at the prompt.
Utterances == {"what is a bst", "how fast is it"}

\* What the rewriting model may answer: the utterance unchanged, or a
\* standalone question.
Rewrites == {"how fast is it", "how fast is lookup in a bst"}

\* The sentence the generation model is told to say when the context does
\* not hold the answer.
Fallback == "I could not find the answer in the provided document."

\* What the generation model may answer.
Answers == {Fallback, "O(log n) on average"}

\* What the embedding model may return for a query.
Dimension(model) == IF model = "text-embedding-004" THEN EmbedDim ELSE EmbedDim + 1

\* The vector of d entries that is 1 at entry j and 0 elsewhere.
UnitVector(d, j) == [i \in 1..d |-> IF i = j THEN 1 ELSE 0]

\* The vectors an embedding model may return: as many entries as the model has
\* dimensions.
VectorsOf(model) == {UnitVector(Dimension(model), j) : j \in 1..Dimension(model)}

Vectors == VectorsOf(QueryEmbeddingModel)

\* No error has been thrown.
NoError == [name |-> "none", message |-> ""]

\* What a rejected call of the Gemini or Pinecone client throws.
SdkErrors ==
    {[name |-> "ApiError", message |-> "503 Service Unavailable"],
     [name |-> "PineconeConnectionError", message |-> "fetch failed"]}

\* Texts of the chunks stored in the index, as sequences of characters.
ChunkTexts == {<<"a", "b">>, <<"c">>}

\* A match returned by the vector store: { metadata: { text } }.
Match(t) == [metadata |-> [text |-> t]]

RECURSIVE SeqsUpTo(_, _)
SeqsUpTo(S, n) ==
    IF n = 0 THEN {<<>>}
    ELSE LET shorter == SeqsUpTo(S, n - 1)
         IN  shorter \cup {Append(s, x) : s \in {q \in shorter : Len(q) = n - 1}, x \in S}

\* The replies of pineconeIndex.query: { matches: [...] }.
SearchReplies == {[matches |-> ms] : ms \in SeqsUpTo({Match(t) : t \in ChunkTexts}, MaxMatches)}

\* ------------------------------------------------------------- state
VARIABLES
    History,        \* the module-level chat history array
    pc,             \* where the process is: at the prompt, awaiting a call, or ended
    question,       \* chatting's parameter
    enhancedQuery,  \* chatting's local: the rewritten question
    queryVector,    \* chatting's local: the embedding of enhancedQuery
    searchResults,  \* chatting's local: the reply of the vector store
    context,        \* chatting's local: the assembled context
    calls,          \* the external calls issued in the current turn, in order
    response,       \* the text of the generation model's last reply
    output,         \* what the last console.log(response.text) printed
    failedStage,    \* the call whose rejection ended the process, or "none"
    thrown,         \* the error the process ended with, or NoError
    embeddingModel, \* chatting's local: the model its embeddings are built with
    histBefore,     \* History as it was when the current turn began
    turns,          \* number of questions read so far
    completed       \* number of turns in which chatting returned

queryVars == <<History, pc, question, enhancedQuery, queryVector, searchResults,
               context, calls, response, output, failedStage, thrown,
               embeddingModel, histBefore, turns, completed>>

VARIABLES
    index,          \* the records the Pinecone index holds
    indexDim,       \* the dimension the Pinecone index was created with
    topK            \* the topK written in query.js

VARIABLES
    chunkSize,      \* the chunkSize the splitter is built with
    chunkOverlap,   \* the chunkOverlap the splitter is built with
    document,       \* the text of the file at PDF_PATH
    ingestModel,    \* saveDocumentIntoVectorDatabase's local: the model its
                    \* embeddings are built with
    ipc,            \* where index.js is: idle, awaiting a call, done or failed
    rawDocs,        \* saveDocumentIntoVectorDatabase's local: the loaded text
    chunkDocs,      \* saveDocumentIntoVectorDatabase's local: the chunks
    embedding,      \* the chunks whose embedding request is in flight
    embedded,       \* the chunks whose embedding has returned
    indexBefore,    \* index as it was when the current run of index.js began
    ingestError,    \* what ended the current run of index.js, or "none"
    runs            \* number of runs of index.js started

ingestVars == <<chunkSize, chunkOverlap, document, ingestModel, ipc, rawDocs, chunkDocs,
                embedding, embedded, indexBefore, ingestError, runs>>

\* The MCP server (server/index.js).
VARIABLES
    transports,     \* transports.sse: the transports it holds, each under its
                    \* sessionId
    connections,    \* the sessionIds of the SSE connections that are open
    sessions,       \* number of GET /sse requests accepted so far
    posts,          \* the POST /messages requests so far, each with its answer
    spc             \* the server process: listening or crashed

serverVars == <<transports, connections, sessions, posts, spc>>

\* The MCP client (client/index.js).
VARIABLES
    contents,       \* runAiAgent's local: what the model is called with
    result,         \* runAiAgent's local: the last answer of the model
    functionCall,   \* runAiAgent's local: the function call being served
    apc,            \* where the client is: at the prompt, awaiting a call, ended
    steps,          \* the iterations of the loop of the current runAiAgent
    printed,        \* what the last console.log("AI:", ...) printed
    agentRuns       \* number of questions read so far

agentVars == <<contents, result, functionCall, apc, steps, printed, agentRuns>>

vars == <<queryVars, index, indexDim, topK, ingestVars, serverVars, agentVars>>

\* What the actions of query.js leave alone.
notQuery == <<index, indexDim, topK, ingestVars, serverVars, agentVars>>

\* What the actions of index.js leave alone.
notIngest == <<queryVars, indexDim, topK, serverVars, agentVars>>

\* What the handlers of the MCP server leave alone.
notServer == <<queryVars, index, indexDim, topK, ingestVars, agentVars>>

\* What the MCP client leaves alone.
notAgent == <<queryVars, index, indexDim, topK, ingestVars, serverVars>>

None == "none"

\* ------------------------------------------------------------- helpers
UserTurn(t) == [role |-> "user", parts |-> <<[text |-> t]>>]

\* Mutant: the answer is stored under the user's role.
ModelTurn_UserRole(t) == [role |-> "user", parts |-> <<[text |-> t]>>]

ModelTurn(t) == [role |-> "model", parts |-> <<[text |-> t]>>]

\* Array.prototype.push
Push(h, e) == Append(h, e)

\* Mutant: the pop is forgotten.
Pop_Forgotten(h) == h

\* Mutant: two entries are popped, the pushed one and the one before it.
Pop_Twice(h) == IF Len(h) < 2 THEN <<>> ELSE SubSeq(h, 1, Len(h) - 2)

\* Array.prototype.pop (the popped element is not used by the program)
Pop(h) == IF Len(h) = 0 THEN h ELSE SubSeq(h, 1, Len(h) - 1)

\* Array.prototype.join on sequences of characters
RECURSIVE Join(_, _)
Join(ts, sep) ==
    IF Len(ts) = 0 THEN <<>>
    ELSE IF Len(ts) = 1 THEN ts[1]
    ELSE ts[1] \o sep \o Join(Tail(ts), sep)

Delimiter == <<"\n", "\n", "-", "-", "-", "\n", "\n">>

\* Mutant: the texts are joined last match first.
Assemble_Reversed(matches) ==
    Join([i \in 1..Len(matches) |-> matches[Len(matches) + 1 - i].metadata.text],
         Delimiter)

\* searchResults.matches.map(match => match.metadata.text).join("\n\n---\n\n")
Assemble(matches) ==
    Join([i \in 1..Len(matches) |-> matches[i].metadata.text], Delimiter)

\* An external call as it is issued: which service, and with what argument.
Call(stage, request) == [stage |-> stage, request |-> request]

\* The generation call: the contents, and the context that is part of its
\* system instruction.
GenerateCall(turnsSent, ctx) ==
    [stage |-> "generate", request |-> turnsSent, context |-> ctx]

\* ------------------------------------------------------------- Init
\* The MCP server listens, with no transport in its table.
ServerInit ==
    /\ transports = {}
    /\ connections = {}
    /\ sessions = 0
    /\ posts = <<>>
    /\ spc = "listening"

\* No answer of the model, no function call.
NoResult == [functionCalls |-> <<>>, text |-> ""]

NoCall == [name |-> "", args |-> <<>>]

\* The MCP client is connected, has listed the tools and is at its prompt.
AgentInit ==
    /\ contents = <<>>
    /\ result = NoResult
    /\ functionCall = NoCall
    /\ apc = "prompt"
    /\ steps = <<>>
    /\ printed = ""
    /\ agentRuns = 0

\* The two MCP programs, started.
McpInit == ServerInit /\ AgentInit

QueryInit ==
    /\ History = <<>>
    /\ pc = "prompt"
    /\ question = None
    /\ enhancedQuery = None
    /\ queryVector = <<>>
    /\ searchResults = [matches |-> <<>>]
    /\ context = <<>>
    /\ calls = <<>>
    /\ response = None
    /\ output = None
    /\ failedStage = None
    /\ thrown = NoError
    /\ embeddingModel = None
    /\ histBefore = <<>>
    /\ turns = 0
    /\ completed = 0

\* index.js has not been run; it is as written.
IngestIdle ==
    /\ chunkSize = ChunkSize
    /\ chunkOverlap = ChunkOverlap
    /\ document = <<>>
    /\ ingestModel = None
    /\ ipc = "idle"
    /\ rawDocs = <<>>
    /\ chunkDocs = <<>>
    /\ embedding = {}
    /\ embedded = {}
    /\ indexBefore = <<>>
    /\ ingestError = None
    /\ runs = 0

Init ==
    /\ QueryInit
    /\ index = <<>>
    /\ indexDim = EmbedDim
    /\ topK = TopK
    /\ IngestIdle
    /\ McpInit

\* ------------------------------------------------------------- actions
\* Mutant: main calls itself again without waiting for chatting to return.
Main_NotAwaited(q) ==
    /\ pc \in {"prompt", "awaitRewrite", "awaitEmbed", "awaitQuery", "awaitGenerate"}
    /\ turns < MaxTurns
    /\ turns' = turns + 1
    /\ question' = q
    /\ histBefore' = History
    /\ History' = Push(History, UserTurn(q))
    /\ calls' = <<Call("rewrite", History')>>
    /\ pc' = "awaitRewrite"
    /\ UNCHANGED <<enhancedQuery, queryVector, searchResults, context,
                   response, output, failedStage, completed,
                   thrown, embeddingModel>>
    /\ UNCHANGED notQuery

\* Mutant: the question as typed is embedded while the rewriting model is
\* still working.
Main_EmbedsAtOnce(q) ==
    /\ pc = "prompt"
    /\ turns < MaxTurns
    /\ turns' = turns + 1
    /\ question' = q
    /\ histBefore' = History
    /\ History' = Push(History, UserTurn(q))
    /\ calls' = <<Call("rewrite", History'), Call("embed", q)>>
    /\ pc' = "awaitRewrite"
    /\ UNCHANGED <<enhancedQuery, queryVector, searchResults, context,
                   response, output, failedStage, completed,
                   thrown, embeddingModel>>
    /\ UNCHANGED notQuery

\* Mutant: with nothing in History the question is taken as it is typed: the
\* rewriting model is not called.
Main_NoRewriteAtFirst(q) ==
    /\ pc = "prompt"
    /\ turns < MaxTurns
    /\ turns' = turns + 1
    /\ question' = q
    /\ histBefore' = History
    /\ IF History = <<>>
       THEN /\ History' = History
            /\ enhancedQuery' = q
            /\ embeddingModel' = QueryEmbeddingModel
            /\ calls' = <<Call("embed", q)>>
            /\ pc' = "awaitEmbed"
       ELSE /\ History' = Push(History, UserTurn(q))
            /\ enhancedQuery' = enhancedQuery
            /\ embeddingModel' = embeddingModel
            /\ calls' = <<Call("rewrite", History')>>
            /\ pc' = "awaitRewrite"
    /\ UNCHANGED <<queryVector, searchResults, context,
                   response, output, failedStage, completed,
                   thrown>>
    /\ UNCHANGED notQuery

\* main reads q, calls chatting(q), which calls transformQuery(q): the raw
\* question is pushed and the rewriting model is called with History.
Main(q) ==
    /\ pc = "prompt"
    /\ turns < MaxTurns
    /\ turns' = turns + 1
    /\ question' = q
    /\ histBefore' = History
    /\ History' = Push(History, UserTurn(q))
    /\ calls' = <<Call("rewrite", History')>>
    /\ pc' = "awaitRewrite"
    /\ UNCHANGED <<enhancedQuery, queryVector, searchResults, context,
                   response, output, failedStage, completed,
                   thrown, embeddingModel>>
    /\ UNCHANGED notQuery

\* Mutant: the rewritten question is pushed as soon as it is known, before
\* the embedding and the retrieval.
TransformQueryReturn_PushEarly(r) ==
    /\ pc = "awaitRewrite"
    /\ History' = Push(Pop(History), UserTurn(r))
    /\ enhancedQuery' = r
    /\ embeddingModel' = QueryEmbeddingModel
    /\ calls' = Append(calls, Call("embed", r))
    /\ pc' = "awaitEmbed"
    /\ UNCHANGED <<question, queryVector, searchResults, context,
                   response, output, failedStage, histBefore, turns, completed,
                   thrown>>
    /\ UNCHANGED notQuery

\* The rewriting model answers r: transformQuery pops the raw question and
\* returns r; chatting calls embedQuery(enhancedQuery).
TransformQueryReturn(r) ==
    /\ pc = "awaitRewrite"
    /\ History' = Pop(History)
    /\ enhancedQuery' = r
    /\ embeddingModel' = QueryEmbeddingModel
    /\ calls' = Append(calls, Call("embed", r))
    /\ pc' = "awaitEmbed"
    /\ UNCHANGED <<question, queryVector, searchResults, context,
                   response, output, failedStage, histBefore, turns, completed,
                   thrown>>
    /\ UNCHANGED notQuery

\* A rejected await: the exception leaves transformQuery, chatting and main
\* without running any further statement.
Reject(at, stage) ==
    /\ pc = at
    /\ pc' = "ended"
    /\ failedStage' = stage
    /\ \E e \in SdkErrors : thrown' = e
    /\ UNCHANGED <<History, question, enhancedQuery, queryVector, searchResults,
                   context, calls, response, output, histBefore, turns, completed,
                   embeddingModel>>
    /\ UNCHANGED notQuery

TransformQueryFail == Reject("awaitRewrite", "rewrite")

\* The argument of pineconeIndex.query.
QueryRequest(k, v) == [topK |-> k, vector |-> v, includeMetadata |-> TRUE]

\* Mutant: the query asks for one match, whatever topK is configured.
EmbedReturn_TopKOne(v) ==
    /\ pc = "awaitEmbed"
    /\ queryVector' = v
    /\ calls' = Append(calls, Call("retrieve", QueryRequest(1, v)))
    /\ pc' = "awaitQuery"
    /\ UNCHANGED <<History, question, enhancedQuery, searchResults, context,
                   response, output, failedStage, histBefore, turns, completed,
                   thrown, embeddingModel>>
    /\ UNCHANGED notQuery

\* Mutant: the vector is cut or filled with zeros to the dimension of the
\* index before it is sent.
EmbedReturn_FitToIndex(v) ==
    /\ pc = "awaitEmbed"
    /\ queryVector' = v
    /\ calls' = Append(calls, Call("retrieve",
           QueryRequest(topK, [i \in 1..indexDim |-> IF i <= Len(v) THEN v[i] ELSE 0])))
    /\ pc' = "awaitQuery"
    /\ UNCHANGED <<History, question, enhancedQuery, searchResults, context,
                   response, output, failedStage, histBefore, turns, completed,
                   thrown, embeddingModel>>
    /\ UNCHANGED notQuery

\* The embedding model answers v: chatting queries the vector store.
EmbedReturn(v) ==
    /\ pc = "awaitEmbed"
    /\ queryVector' = v
    /\ calls' = Append(calls, Call("retrieve", QueryRequest(topK, v)))
    /\ pc' = "awaitQuery"
    /\ UNCHANGED <<History, question, enhancedQuery, searchResults, context,
                   response, output, failedStage, histBefore, turns, completed,
                   thrown, embeddingModel>>
    /\ UNCHANGED notQuery

EmbedFail == Reject("awaitEmbed", "embed")

\* Mutant: the question as typed is pushed instead of the rewritten one.
QueryReturn_PushRaw(res) ==
    /\ pc = "awaitQuery"
    /\ searchResults' = res
    /\ context' = Assemble(res.matches)
    /\ History' = Push(History, UserTurn(question))
    /\ calls' = Append(calls, GenerateCall(History', context'))
    /\ pc' = "awaitGenerate"
    /\ UNCHANGED <<question, enhancedQuery, queryVector, response, output,
                   failedStage, histBefore, turns, completed,
                   thrown, embeddingModel>>
    /\ UNCHANGED notQuery

\* The vector store answers res: chatting builds the context, pushes the
\* rewritten question and calls the generation model with History.
QueryReturn(res) ==
    /\ pc = "awaitQuery"
    /\ searchResults' = res
    /\ context' = Assemble(res.matches)
    /\ History' = Push(History, UserTurn(enhancedQuery))
    /\ calls' = Append(calls, GenerateCall(History', context'))
    /\ pc' = "awaitGenerate"
    /\ UNCHANGED <<question, enhancedQuery, queryVector, response, output,
                   failedStage, histBefore, turns, completed,
                   thrown, embeddingModel>>
    /\ UNCHANGED notQuery

QueryFail == Reject("awaitQuery", "retrieve")

\* The generation model answers t: chatting pushes the model turn and prints
\* the answer; main calls itself and is at the prompt again.
GenerateReturn(t) ==
    /\ pc = "awaitGenerate"
    /\ response' = t
    /\ History' = Push(History, ModelTurn(t))
    /\ output' = t
    /\ completed' = completed + 1
    /\ pc' = "prompt"
    /\ UNCHANGED <<question, enhancedQuery, queryVector, searchResults, context,
                   calls, failedStage, histBefore, turns,
                   thrown, embeddingModel>>
    /\ UNCHANGED notQuery

GenerateFail == Reject("awaitGenerate", "generate")

Next ==
    \/ \E q \in Utterances : Main(q)
    \/ \E r \in Rewrites : TransformQueryReturn(r)
    \/ TransformQueryFail
    \/ \E v \in Vectors : EmbedReturn(v)
    \/ EmbedFail
    \/ \E res \in SearchReplies : QueryReturn(res)
    \/ QueryFail
    \/ \E t \in Answers : GenerateReturn(t)
    \/ GenerateFail

Spec == Init /\ [][Next]_vars

\* Every step of the program is taken once it can be: the external calls
\* settle, and the process runs whatever is runnable.
FairSpec == Spec /\ WF_vars(Next)

\* ------------------------------------------------------------- the index
\* The vector store behind pineconeIndex: it holds records { id, values,
\* metadata: { text } } and answers a query with the topK records of highest
\* score, highest first.

Letters == <<"a", "b", "c", "d", "e", "f", "g", "h", "i", "j", "k", "l", "m">>

Letter(i) == Letters[((i - 1) % Len(Letters)) + 1]

Record(id, values, text) == [id |-> id, values |-> values, metadata |-> [text |-> text]]

\* The similarity of two vectors: their dot product.
RECURSIVE DotFrom(_, _, _)
DotFrom(a, b, i) ==
    IF i > Len(a) \/ i > Len(b) THEN 0 ELSE a[i] * b[i] + DotFrom(a, b, i + 1)

Score(a, b) == DotFrom(a, b, 1)

\* The largest score any pair of vectors of the model has.
TopScore == 1

\* The records of idx, highest score against v first; records of equal
\* score stay in the order they are stored.
RECURSIVE RankedFrom(_, _, _)
RankedFrom(idx, v, s) ==
    IF s < 0 THEN <<>>
    ELSE SelectSeq(idx, LAMBDA r : Score(r.values, v) = s) \o RankedFrom(idx, v, s - 1)

Ranked(idx, v) == RankedFrom(idx, v, TopScore)

Smaller(a, b) == IF a < b THEN a ELSE b

\* The reply of the index to a query request.
StoreQuery(idx, req) ==
    LET ranked == Ranked(idx, req.vector)
        n == Smaller(req.topK, Len(ranked))
    IN  [matches |-> [i \in 1..n |->
            [id |-> ranked[i].id,
             score |-> Score(ranked[i].values, req.vector),
             metadata |-> ranked[i].metadata]]]

\* An index of m records, as an earlier run of index.js may have left it.
IndexOf(m) ==
    [i \in 1..m |->
        Record(i, UnitVector(EmbedDim, IF i % 2 = 1 THEN 2 ELSE 1), <<Letter(i)>>)]

Indexes == {IndexOf(m) : m \in 0..MaxIndex}

\* query.js started against an index that holds some records.
InitStore ==
    /\ QueryInit
    /\ index \in Indexes
    /\ indexDim = EmbedDim
    /\ topK = TopK
    /\ IngestIdle
    /\ McpInit

\* The index answers the query in flight; it refuses a topK below 1 and a
\* vector that has not the dimension of the index.
StoreReturn ==
    /\ pc = "awaitQuery"
    /\ calls[Len(calls)].request.topK >= 1
    /\ Len(calls[Len(calls)].request.vector) = indexDim
    /\ QueryReturn(StoreQuery(index, calls[Len(calls)].request))

NextStore ==
    \/ \E q \in Utterances : Main(q)
    \/ \E r \in Rewrites : TransformQueryReturn(r)
    \/ TransformQueryFail
    \/ \E v \in Vectors : EmbedReturn(v)
    \/ EmbedFail
    \/ StoreReturn
    \/ QueryFail
    \/ \E t \in Answers : GenerateReturn(t)
    \/ GenerateFail

SpecStore == InitStore /\ [][NextStore]_vars

\* ------------------------------------------------------------- index.js
\* The text splitter, by its contract: chunk after chunk from offset 0, each
\* chunk text[offset .. offset + chunkSize), the next offset chunkSize -
\* overlap further, until the offset reaches the end of the text.
Chunk_(text, offset, size) ==
    LET last == Smaller(offset + size, Len(text))
    IN  [text |-> SubSeq(text, offset + 1, last), offset |-> offset,
         length |-> last - offset]

\* Mutant: the scan stops only once the offset is past the end of the text.
RECURSIVE ChunkFrom_LateStop(_, _, _, _)
ChunkFrom_LateStop(text, size, overlap, offset) ==
    IF offset > Len(text) THEN <<>>
    ELSE <<Chunk_(text, offset, size)>>
         \o ChunkFrom_LateStop(text, size, overlap, offset + size - overlap)

RECURSIVE ChunkFrom(_, _, _, _)
ChunkFrom(text, size, overlap, offset) ==
    IF offset >= Len(text) THEN <<>>
    ELSE <<Chunk_(text, offset, size)>>
         \o ChunkFrom(text, size, overlap, offset + size - overlap)

\* Mutant: the next chunk starts where the last one ended.
SplitText_NoOverlap(text, size, overlap) == ChunkFrom(text, size, 0, 0)

\* textSplitter.splitDocuments(rawDocs)
SplitText(text, size, overlap) == ChunkFrom(text, size, overlap, 0)

\* The splitter refuses these settings when it is built.
ValidChunking(size, overlap) == size > 0 /\ overlap >= 0 /\ overlap < size

\* The embedding model of index.js, for a chunk: the same text gives the same
\* vector, of as many entries as the model has dimensions.
EmbeddingOf(text) ==
    UnitVector(Dimension(IngestEmbeddingModel), IF Len(text) % 2 = 1 THEN 2 ELSE 1)

\* index.js gives fromDocuments no ids: every record is stored under a new
\* id, one that no record of the index has.
NewId(idx, k) == Len(idx) + k

\* The records for the chunks, as fromDocuments hands them to the index.
RecordsFor(idx, chunks) ==
    [k \in 1..Len(chunks) |->
        Record(NewId(idx, k), EmbeddingOf(chunks[k].text), chunks[k].text)]

\* The index's upsert: a record replaces the one of the same id, or is added.
RECURSIVE Upsert(_, _)
Upsert(idx, items) ==
    IF Len(items) = 0 THEN idx
    ELSE LET it == Head(items)
             at == {j \in 1..Len(idx) : idx[j].id = it.id}
             put == IF at = {} THEN Append(idx, it)
                    ELSE [j \in 1..Len(idx) |-> IF j \in at THEN it ELSE idx[j]]
         IN  Upsert(put, Tail(items))

\* A document of n characters.
Doc(n) == [i \in 1..n |-> Letter(i)]

Documents == {Doc(n) : n \in 0..MaxDocLen}

\* The chunk settings index.js is run with: the ones it is written with, and
\* small ones of the same kind.
ChunkSettings ==
    {<<ChunkSize, ChunkOverlap>>}
        \cup {<<sz, ov>> : sz \in 0..MaxChunkSize, ov \in 0..(MaxChunkSize - 1)}

\* node index.js: saveDocumentIntoVectorDatabase() calls pdfLoader.load().
IngestStart ==
    /\ ipc \in {"idle", "done", "failed"}
    /\ runs < MaxRuns
    /\ runs' = runs + 1
    /\ ipc' = "awaitLoad"
    /\ indexBefore' = index
    /\ ingestError' = None
    /\ rawDocs' = <<>>
    /\ ingestModel' = None
    /\ chunkDocs' = <<>>
    /\ embedding' = {}
    /\ embedded' = {}
    /\ UNCHANGED <<chunkSize, chunkOverlap, document, index>>
    /\ UNCHANGED notIngest

\* A run of index.js ends on a rejected await or a thrown error.
IngestAbort(at, error) ==
    /\ ipc = at
    /\ ipc' = "failed"
    /\ ingestError' = error
    /\ UNCHANGED <<chunkSize, chunkOverlap, document, ingestModel, rawDocs, chunkDocs,
                   embedding, embedded, indexBefore, runs, index>>
    /\ UNCHANGED notIngest

\* The loader returns the text; the splitter is built and called.
LoadReturn ==
    /\ ipc = "awaitLoad"
    /\ ValidChunking(chunkSize, chunkOverlap)
    /\ rawDocs' = document
    /\ ipc' = "awaitSplit"
    /\ UNCHANGED <<chunkSize, chunkOverlap, document, ingestModel, chunkDocs, embedding,
                   embedded, indexBefore, ingestError, runs, index>>
    /\ UNCHANGED notIngest

\* The loader returns the text; the splitter refuses its settings.
LoadReturnBadSettings ==
    /\ ~ValidChunking(chunkSize, chunkOverlap)
    /\ IngestAbort("awaitLoad", "ConfigError")

LoadFail == IngestAbort("awaitLoad", "ServiceError")

\* The splitter returns the chunks; PineconeStore.fromDocuments is called.
SplitReturn ==
    /\ ipc = "awaitSplit"
    /\ chunkDocs' = SplitText(rawDocs, chunkSize, chunkOverlap)
    /\ ingestModel' = IngestEmbeddingModel
    /\ ipc' = "awaitStore"
    /\ UNCHANGED <<chunkSize, chunkOverlap, document, rawDocs, embedding,
                   embedded, indexBefore, ingestError, runs, index>>
    /\ UNCHANGED notIngest

\* Mutant: every chunk is sent to the embedding model at once.
EmbedChunkStart_NoLimit ==
    /\ ipc = "awaitStore"
    /\ LET k == Cardinality(embedding) + Cardinality(embedded) + 1
       IN  /\ k <= Len(chunkDocs)
           /\ embedding' = embedding \cup {k}
    /\ UNCHANGED <<chunkSize, chunkOverlap, document, ingestModel, ipc, rawDocs, chunkDocs,
                   embedded, indexBefore, ingestError, runs, index>>
    /\ UNCHANGED notIngest

\* fromDocuments sends the next chunk to the embedding model, as long as
\* fewer than maxConcurrency requests are in flight.
EmbedChunkStart ==
    /\ ipc = "awaitStore"
    /\ Cardinality(embedding) < MaxConcurrency
    /\ LET k == Cardinality(embedding) + Cardinality(embedded) + 1
       IN  /\ k <= Len(chunkDocs)
           /\ embedding' = embedding \cup {k}
    /\ UNCHANGED <<chunkSize, chunkOverlap, document, ingestModel, ipc, rawDocs, chunkDocs,
                   embedded, indexBefore, ingestError, runs, index>>
    /\ UNCHANGED notIngest

\* Mutant: the vector of a chunk is stored as soon as it comes back.
EmbedChunkReturn_StoredAtOnce(k) ==
    /\ ipc = "awaitStore"
    /\ k \in embedding
    /\ embedding' = embedding \ {k}
    /\ embedded' = embedded \cup {k}
    /\ index' = Upsert(index, <<RecordsFor(index, chunkDocs)[k]>>)
    /\ UNCHANGED <<chunkSize, chunkOverlap, document, ingestModel, ipc, rawDocs, chunkDocs,
                   indexBefore, ingestError, runs>>
    /\ UNCHANGED notIngest

\* The embedding model returns the vector of chunk k.
EmbedChunkReturn(k) ==
    /\ ipc = "awaitStore"
    /\ k \in embedding
    /\ embedding' = embedding \ {k}
    /\ embedded' = embedded \cup {k}
    /\ UNCHANGED <<chunkSize, chunkOverlap, document, ingestModel, ipc, rawDocs, chunkDocs,
                   indexBefore, ingestError, runs, index>>
    /\ UNCHANGED notIngest

\* An embedding request fails: fromDocuments rejects.
EmbedChunkFail ==
    /\ embedding # {}
    /\ IngestAbort("awaitStore", "EmbedError")

\* Every chunk has its vector: the records are upserted, fromDocuments
\* returns and index.js is done.  The index takes vectors of its dimension.
UpsertReturn ==
    /\ ipc = "awaitStore"
    /\ embedded = 1..Len(chunkDocs)
    /\ \A k \in 1..Len(chunkDocs) : Len(EmbeddingOf(chunkDocs[k].text)) = indexDim
    /\ index' = Upsert(index, RecordsFor(index, chunkDocs))
    /\ ipc' = "done"
    /\ UNCHANGED <<chunkSize, chunkOverlap, document, ingestModel, rawDocs, chunkDocs,
                   embedding, embedded, indexBefore, ingestError, runs>>
    /\ UNCHANGED notIngest

\* The upsert fails: fromDocuments rejects.
UpsertFail ==
    /\ embedded = 1..Len(chunkDocs)
    /\ chunkDocs # <<>>
    /\ IngestAbort("awaitStore", "UpsertError")

NextIngest ==
    \/ IngestStart
    \/ LoadReturn
    \/ LoadReturnBadSettings
    \/ LoadFail
    \/ SplitReturn
    \/ EmbedChunkStart
    \/ \E k \in 1..Len(chunkDocs) : EmbedChunkReturn(k)
    \/ EmbedChunkFail
    \/ UpsertReturn
    \/ UpsertFail

\* index.js run on some document with some chunk settings, the index empty.
InitIngest ==
    /\ QueryInit
    /\ topK = TopK
    /\ index = <<>>
    /\ indexDim = EmbedDim
    /\ \E c \in ChunkSettings : chunkSize = c[1] /\ chunkOverlap = c[2]
    /\ document \in Documents
    /\ ingestModel = None
    /\ ipc = "idle"
    /\ rawDocs = <<>>
    /\ chunkDocs = <<>>
    /\ embedding = {}
    /\ embedded = {}
    /\ indexBefore = <<>>
    /\ ingestError = None
    /\ runs = 0
    /\ McpInit

SpecIngest == InitIngest /\ [][NextIngest]_vars

\* ------------------------------------------------------------- both programs
\* index.js is run on the document; once it is done, query.js is started
\* against the index it filled.
IngestThenQuery ==
    \/ /\ turns = 0
       /\ NextIngest
    \/ /\ ipc = "done"
       /\ NextStore

SpecPipeline == InitIngest /\ [][IngestThenQuery]_vars

\* ------------------------------------------------------------- settings
\* The values topK is given in query.js: the one it is written with, and one
\* that is no valid topK.
TopKs == {0, TopK}

\* query.js with some topK, against an index that holds some records.
InitConfig ==
    /\ QueryInit
    /\ index \in Indexes
    /\ indexDim = EmbedDim
    /\ topK \in TopKs
    /\ IngestIdle
    /\ McpInit

SpecConfig == InitConfig /\ [][NextStore]_vars

\* ------------------------------------------------------------- dimensions
\* An index of m records whose vectors have d entries.
IndexOfDim(m, d) ==
    [i \in 1..m |->
        Record(i, UnitVector(d, IF i % 2 = 1 THEN 2 ELSE 1), <<Letter(i)>>)]

\* The dimensions the index named by PINECONE_INDEX_NAME may have been
\* created with: the one of the embedding model, and another one.
IndexDims == {EmbedDim, EmbedDim + 1}

\* query.js started against an index of some dimension.
InitDims ==
    /\ QueryInit
    /\ indexDim \in IndexDims
    /\ \E m \in 0..MaxIndex : index = IndexOfDim(m, indexDim)
    /\ topK = TopK
    /\ IngestIdle
    /\ McpInit

SpecDims == InitDims /\ [][NextStore]_vars

\* ------------------------------------------------------------- MCP server
\* The sessionId a new SSEServerTransport gives itself: one no transport had.
SessionId(n) == "session-" \o ToString(n)

\* Names every object has from Object.prototype, transports.sse too.
PrototypeKeys == {"constructor", "toString", "__proto__"}

\* req.query.sessionId of a POST /messages: the id of a session, some other
\* string, or nothing at all.
RequestedIds ==
    {SessionId(n) : n \in 1..MaxSessions}
        \cup {"no-such-session", "undefined"} \cup PrototypeKeys

Transport(id) == [kind |-> "transport", sessionId |-> id]

\* What Object.prototype holds under key: a function or an object, and no
\* transport.
Inherited(key) == [kind |-> "inherited", sessionId |-> key]

Undefined == [kind |-> "undefined", sessionId |-> ""]

\* transports.sse[key]: the entry of the table, or what the table inherits.
Lookup(table, key) ==
    IF \E t \in table : t.sessionId = key
    THEN CHOOSE t \in table : t.sessionId = key
    ELSE IF key \in PrototypeKeys THEN Inherited(key)
    ELSE Undefined

\* if (transport)
Truthy(v) == v.kind # "undefined"

\* What transport.handlePostMessage answers: accepted, or a message it cannot
\* read.
HandlerStatuses == {202, 400}

\* The handler throws: Express 5 answers 500; Express 4 leaves the rejection
\* unhandled, which ends the process or leaves the request without an answer
\* (status 0), as the Node version has it.
ThrowOutcomes ==
    {[status |-> 500, spc |-> "listening"],
     [status |-> 0, spc |-> "crashed"],
     [status |-> 0, spc |-> "listening"]}

Post(sid, status, handled) ==
    [sessionId |-> sid, open |-> sid \in connections, status |-> status,
     handled |-> handled]

\* app.get('/sse'): a transport is made, put in the table under its
\* sessionId, the close handler is set and the server is connected to it.
GetSse ==
    /\ spc = "listening"
    /\ sessions < MaxSessions
    /\ sessions' = sessions + 1
    /\ LET id == SessionId(sessions + 1)
       IN  /\ transports' = {t \in transports : t.sessionId # id} \cup {Transport(id)}
           /\ connections' = connections \cup {id}
    /\ UNCHANGED <<posts, spc>>
    /\ UNCHANGED notServer

\* res.on("close"): the connection of session id is closed and its handler
\* deletes the entry.
SseClose(id) ==
    /\ spc = "listening"
    /\ id \in connections
    /\ connections' = connections \ {id}
    /\ transports' = {t \in transports : t.sessionId # id}
    /\ UNCHANGED <<sessions, posts, spc>>
    /\ UNCHANGED notServer

\* app.post('/messages') with ?sessionId=sid.
PostMessages(sid) ==
    /\ spc = "listening"
    /\ Len(posts) < MaxPosts
    /\ LET transport == Lookup(transports, sid)
       IN  IF Truthy(transport)
           THEN IF transport.kind = "transport"
                THEN \E st \in HandlerStatuses :
                        /\ posts' = Append(posts, Post(sid, st, TRUE))
                        /\ spc' = spc
                ELSE \E o \in ThrowOutcomes :
                        /\ posts' = Append(posts, Post(sid, o.status, FALSE))
                        /\ spc' = o.spc
           ELSE /\ posts' = Append(posts, Post(sid, 400, FALSE))
                /\ spc' = spc
    /\ UNCHANGED <<transports, connections, sessions>>
    /\ UNCHANGED notServer

NextServer ==
    \/ GetSse
    \/ \E id \in connections : SseClose(id)
    \/ \E sid \in RequestedIds : PostMessages(sid)

SpecServer == Init /\ [][NextServer]_vars

\* ------------------------------------------------------------- MCP client
\* What the user types at "You: ".
UserPrompts == {"add 1 and 2"}

FunctionCall(name, a, b) == [name |-> name, args |-> <<a, b>>]

\* The function calls an answer of the model may hold: none, one or two.
FunctionCallLists ==
    {<<>>,
     <<FunctionCall("addTwoNumbers", 1, 2)>>,
     <<FunctionCall("addTwoNumbers", 1, 2), FunctionCall("addTwoNumbers", 3, 4)>>}

\* The answers of generateContent: function calls or none, text or none.
ModelResults ==
    {[functionCalls |-> fcs, text |-> t] :
        fcs \in FunctionCallLists, t \in {"", "the sum is 3"}}

\* The results of mcpClient.callTool: a content of one part, or of none.
ToolResults ==
    {[content |-> <<[type |-> "text", text |-> "the sum of 1 and 2 is 3"]>>],
     [content |-> <<>>]}

\* toolResult.content[0]
First(content) ==
    IF Len(content) > 0 THEN content[1] ELSE [type |-> "undefined", text |-> ""]

\* The entry pushed for the result of a tool.
FunctionResponse(name, part) ==
    [role |-> "function",
     parts |-> <<[functionResponse |-> [name |-> name, response |-> part]]>>]

\* One iteration of the loop of runAiAgent: the answer it got, the tools it
\* called and the entries it pushed.
Step(res, called) == [result |-> res, called |-> called, pushed |-> <<>>]

\* main calls runAiAgent: the question is read, contents is built and
\* generateContent is called.
RunAiAgent(u) ==
    /\ apc = "prompt"
    /\ agentRuns < MaxAgentRuns
    /\ agentRuns' = agentRuns + 1
    /\ contents' = <<UserTurn(u)>>
    /\ steps' = <<>>
    /\ apc' = "awaitGenerate"
    /\ UNCHANGED <<result, functionCall, printed>>
    /\ UNCHANGED notAgent

\* generateContent returns res.  With function calls, the first is sent to
\* the MCP server.  Without, a text is printed and runAiAgent returns, main
\* calling it anew; with no text either, generateContent is called again.
AgentGenerateReturn(res) ==
    /\ apc = "awaitGenerate"
    /\ Len(steps) < MaxSteps
    /\ result' = res
    /\ IF Len(res.functionCalls) > 0
       THEN /\ functionCall' = res.functionCalls[1]
            /\ steps' = Append(steps, Step(res, <<functionCall'>>))
            /\ apc' = "awaitTool"
            /\ printed' = printed
       ELSE /\ functionCall' = functionCall
            /\ steps' = Append(steps, Step(res, <<>>))
            /\ IF res.text # ""
               THEN /\ printed' = res.text
                    /\ apc' = "prompt"
               ELSE /\ printed' = printed
                    /\ apc' = "awaitGenerate"
    /\ UNCHANGED <<contents, agentRuns>>
    /\ UNCHANGED notAgent

\* callTool returns toolResult: the function response is pushed and
\* generateContent is called again.
AgentToolReturn(toolResult) ==
    /\ apc = "awaitTool"
    /\ LET entry == FunctionResponse(functionCall.name, First(toolResult.content))
       IN  /\ contents' = Push(contents, entry)
           /\ steps' = [steps EXCEPT ![Len(steps)].pushed = <<entry>>]
    /\ apc' = "awaitGenerate"
    /\ UNCHANGED <<result, functionCall, printed, agentRuns>>
    /\ UNCHANGED notAgent

\* generateContent or callTool rejects: runAiAgent and main reject, and
\* nothing catches it.
AgentReject ==
    /\ apc \in {"awaitGenerate", "awaitTool"}
    /\ apc' = "ended"
    /\ UNCHANGED <<contents, result, functionCall, steps, printed, agentRuns>>
    /\ UNCHANGED notAgent

NextAgent ==
    \/ \E u \in UserPrompts : RunAiAgent(u)
    \/ \E res \in ModelResults : AgentGenerateReturn(res)
    \/ \E tr \in ToolResults : AgentToolReturn(tr)
    \/ AgentReject

SpecAgent == Init /\ [][NextAgent]_vars

\* ============================================================= claims
\* The process is between two turns: every question read so far was answered.
AtPrompt == pc = "prompt"

\* The process is in the middle of a turn, waiting for an external call.
InTurn == pc \in {"awaitRewrite", "awaitEmbed", "awaitQuery", "awaitGenerate"}

Roles(h) == [i \in 1..Len(h) |-> h[i].role]

TextOf(turn) == turn.parts[1].text

NumWithRole(h, role) == Cardinality({i \in 1..Len(h) : h[i].role = role})

\* C1: after N completed turns the history has exactly 2*N entries, N of
\* them user turns and N of them model turns; the raw question pushed by the
\* rewrite step is not among them.
C1_HistoryLength ==
    AtPrompt =>
        /\ Len(History) = 2 * completed
        /\ NumWithRole(History, "user") = completed
        /\ NumWithRole(History, "model") = completed

C1_Witness == AtPrompt /\ completed = 2 /\ Len(History) = 4

\* C2: if the generation call fails, the history after the failed turn is
\* the history before the turn began.
C2_GenerateFailureRestoresHistory ==
    failedStage = "generate" => History = histBefore

\* C3: if the rewriting call fails, the raw question is not left in the
\* history: the history is the one before the turn began.
C3_RewriteFailureRestoresHistory ==
    failedStage = "rewrite" => History = histBefore

\* C4: if the embedding call or the vector-store query fails, the turn is
\* aborted with the history as it was before the turn began: neither the raw
\* question nor the rewritten one is in it.
C4_RetrievalFailureLeavesHistory ==
    failedStage \in {"embed", "retrieve"} =>
        /\ pc = "ended"
        /\ History = histBefore
        /\ Len(History) = 2 * completed

C4_Witness ==
    /\ failedStage = "retrieve"
    /\ completed = 1
    /\ enhancedQuery # question
    /\ History = histBefore

\* C5: after a turn fails at any stage, the loop keeps running: the process
\* comes back to the prompt for the next question.
C5_LoopSurvivesFailure == (failedStage # None) ~> AtPrompt

\* C6: in every intermediate state of a turn the history equals its value
\* before the turn began.
C6_NoPartialMutation == InTurn => History = histBefore

\* C7: a turn whose retrieval returned no match prints exactly the fallback
\* sentence, whatever the generation model returned.
C7_FallbackOnEmptyContext ==
    (AtPrompt /\ completed > 0 /\ Len(searchResults.matches) = 0) =>
        output = Fallback

\* C8: after every completed exchange the roles alternate user, model, ...
\* starting with user, and the last entry is the model turn that answers the
\* user turn right before it: the history is the contents the generation
\* model was called with, which end in that user turn, followed by the answer.
C8_Alternation ==
    (AtPrompt /\ completed > 0) =>
        /\ \A i \in 1..Len(History) :
              History[i].role = (IF i % 2 = 1 THEN "user" ELSE "model")
        /\ History[Len(History)].role = "model"
        /\ calls[Len(calls)].stage = "generate"
        /\ SubSeq(History, 1, Len(History) - 1) = calls[Len(calls)].request
        /\ TextOf(History[Len(History)]) = output

C8_Witness ==
    /\ AtPrompt
    /\ completed = 2
    /\ Roles(History) = <<"user", "model", "user", "model">>

\* C9: the user turn kept for a completed exchange holds the rewritten
\* question of that turn, which is what the embedding model was called with,
\* and not the question as typed; the model turn after it holds the reply of
\* the generation call of that turn.
C9_PersistedTurns ==
    (AtPrompt /\ completed > 0) =>
        LET n == Len(History) IN
        /\ n >= 2
        /\ History[n - 1] = UserTurn(enhancedQuery)
        /\ calls[2] = Call("embed", TextOf(History[n - 1]))
        /\ enhancedQuery # question => TextOf(History[n - 1]) # question
        /\ History[n] = ModelTurn(response)
        /\ SubSeq(History, 1, n - 2) = histBefore

C9_Witness ==
    /\ AtPrompt
    /\ completed = 2
    /\ question = "how fast is it"
    /\ TextOf(History[3]) = "how fast is lookup in a bst"
    /\ TextOf(History[4]) = "O(log n) on average"

\* Position in the context just before the text of match i, when the texts
\* are d characters apart.
RECURSIVE OffsetOf(_, _, _)
OffsetOf(matches, i, d) ==
    IF i = 1 THEN 0
    ELSE OffsetOf(matches, i - 1, d) + Len(matches[i - 1].metadata.text) + d

\* C10: the context holds the texts of the matches in the order the vector
\* store returned them, each followed (but the last) by "\n\n---\n\n", and
\* nothing else; no match gives the empty context.
C10_ContextAssembly ==
    LET ms == searchResults.matches
        n == Len(ms)
        sep == <<"\n", "\n", "-", "-", "-", "\n", "\n">>
        start(i) == OffsetOf(ms, i, Len(sep))
        end(i) == start(i) + Len(ms[i].metadata.text)
    IN  /\ n = 0 => context = <<>>
        /\ n > 0 => Len(context) = end(n)
        /\ \A i \in 1..n :
              SubSeq(context, start(i) + 1, end(i)) = ms[i].metadata.text
        /\ \A i \in 1..(n - 1) :
              SubSeq(context, end(i) + 1, end(i) + Len(sep)) = sep

C10_Witness ==
    /\ pc = "awaitGenerate"
    /\ Len(searchResults.matches) = 2
    /\ context = <<"c", "\n", "\n", "-", "-", "-", "\n", "\n", "a", "b">>

\* C11: with M records in the index and topK = K, the query of a turn brings
\* back exactly min(K, M) matches, all of them records of the index, no record
\* twice, highest score first, and no record left out scores higher than one
\* brought back; the context is built from these matches in this order.  Fewer
\* than K matches, or none, is no failure: the turn goes on to the generation.
C11_RetrieverReturnsTopK ==
    pc = "awaitGenerate" =>
        LET ms == searchResults.matches
            n == Len(ms)
            M == Len(index)
            ids == {ms[i].id : i \in 1..n}
        IN  /\ n = (IF topK < M THEN topK ELSE M)
            /\ Cardinality(ids) = n
            /\ \A i \in 1..n : \E j \in 1..M :
                  /\ index[j].id = ms[i].id
                  /\ index[j].metadata = ms[i].metadata
                  /\ Score(index[j].values, queryVector) = ms[i].score
            /\ \A i \in 1..(n - 1) : ms[i].score >= ms[i + 1].score
            /\ \A j \in 1..M : index[j].id \notin ids =>
                  \A i \in 1..n : Score(index[j].values, queryVector) <= ms[i].score
            /\ context = Assemble(ms)
            /\ failedStage = None

C11_Witness ==
    /\ pc = "awaitGenerate"
    /\ Len(index) = TopK + 1
    /\ Len(searchResults.matches) = TopK
    /\ searchResults.matches[1].score > searchResults.matches[TopK].score

\* index.js has split the document.
Chunked == ipc \in {"awaitStore", "done"}

\* C12: with chunkSize S > 0 and 0 <= overlap < S, every chunk the splitter
\* gives has between 1 and S characters.
C12_ChunkLength ==
    Chunked =>
        \A k \in 1..Len(chunkDocs) :
            /\ Len(chunkDocs[k].text) >= 1
            /\ Len(chunkDocs[k].text) <= chunkSize
            /\ chunkDocs[k].length = Len(chunkDocs[k].text)

C12_Witness ==
    /\ Chunked
    /\ chunkOverlap > 0
    /\ Len(chunkDocs) >= 3
    /\ Len(chunkDocs[1].text) = chunkSize
    /\ Len(chunkDocs[Len(chunkDocs)].text) < chunkSize

ChunkStart(k) == chunkDocs[k].offset

ChunkEnd(k) == chunkDocs[k].offset + chunkDocs[k].length

\* Number of positions of the document that chunks k and k + 1 both hold.
Shared(k) ==
    IF ChunkEnd(k) > ChunkStart(k + 1) THEN ChunkEnd(k) - ChunkStart(k + 1) ELSE 0

\* Every position of the document is in a chunk, every chunk holds the text
\* at its positions, and a position in two chunks is in two consecutive ones
\* or between two that hold it.
ChunksCover ==
    /\ \A p \in 0..(Len(rawDocs) - 1) :
          \E k \in 1..Len(chunkDocs) : ChunkStart(k) <= p /\ p < ChunkEnd(k)
    /\ \A k \in 1..Len(chunkDocs) :
          chunkDocs[k].text = SubSeq(rawDocs, ChunkStart(k) + 1, ChunkEnd(k))
    /\ \A k \in 1..(Len(chunkDocs) - 1) : ChunkStart(k) < ChunkStart(k + 1)

C14_ReingestionKeepsCount ==
    ipc = "done" => Len(index) = Len(chunkDocs)

\* C15: if an embedding request fails while index.js runs, the run ends as
\* failed and the index holds what it held before the run.
C15_EmbedFailureLeavesIndex ==
    ingestError = "EmbedError" =>
        /\ ipc = "failed"
        /\ index = indexBefore

C15_Witness ==
    /\ ingestError = "EmbedError"
    /\ runs = 2
    /\ indexBefore # <<>>
    /\ embedded # {}
    /\ embedding # {}

\* C16: with settings that are not valid, here a topK below 1, nothing is
\* sent to the rewriting model, the embedding model or the index.
C16_BadSettingsStopEarly == topK < 1 => calls = <<>>

\* C17: once index.js has run on the empty document there are no chunks and
\* nothing in the index, and every answer query.js prints afterwards is the
\* fallback sentence.
C17_EmptyDocumentGivesFallback ==
    (ipc = "done" /\ document = <<>>) =>
        /\ chunkDocs = <<>>
        /\ index = <<>>
        /\ completed > 0 => output = Fallback

\* The matches of the turn under way, or of the last one, are known.
Retrieved == pc = "awaitGenerate" \/ completed > 0

\* C18: a document that is not empty and no longer than chunkSize - overlap,
\* stored in an empty index, makes one chunk, the whole document, and one
\* record; a query with topK = 10 then brings back that one chunk.
C18_ShortDocumentOneChunk ==
    (/\ ipc = "done"
     /\ indexBefore = <<>>
     /\ Len(document) >= 1
     /\ Len(document) <= chunkSize - chunkOverlap) =>
        /\ Len(chunkDocs) = 1
        /\ chunkDocs[1].text = document
        /\ Len(index) = 1
        /\ index[1].metadata.text = document
        /\ Len(calls) >= 3 => calls[3].request.topK = 10
        /\ Retrieved =>
              /\ Len(searchResults.matches) = 1
              /\ searchResults.matches[1].metadata.text = document
              /\ context = document

C18_Witness ==
    /\ ipc = "done"
    /\ indexBefore = <<>>
    /\ document = <<"a", "b", "c">>
    /\ chunkSize = 4
    /\ chunkOverlap = 1
    /\ pc = "awaitGenerate"
    /\ Len(searchResults.matches) = 1

\* The external calls of a turn, in the order chatting makes them.
StageOrder == <<"rewrite", "embed", "retrieve", "generate">>

\* C19: the calls of a turn are made in the order rewrite, embedding, index
\* query, generation, each at most once; while one is awaited it is the last
\* one made and all earlier ones have returned, so no two are in flight; and
\* each is made with what the one before returned: the embedding with the
\* rewritten question, the index query with its vector, the generation with
\* the context built from the matches and with the rewritten question.
C19_StagesInOrder ==
    LET n == Len(calls) IN
    /\ n <= Len(StageOrder)
    /\ \A i \in 1..n : calls[i].stage = StageOrder[i]
    /\ pc = "awaitRewrite" => n = 1
    /\ pc = "awaitEmbed" => n = 2
    /\ pc = "awaitQuery" => n = 3
    /\ pc = "awaitGenerate" => n = 4
    /\ pc = "prompt" => n \in {0, 4}
    /\ n >= 2 => calls[2].request = enhancedQuery
    /\ n >= 3 => calls[3].request.vector = queryVector
    /\ n >= 4 =>
          /\ calls[4].context = context
          /\ C10_ContextAssembly
          /\ calls[4].request[Len(calls[4].request)] = UserTurn(enhancedQuery)

C19_Witness ==
    /\ pc = "awaitGenerate"
    /\ turns = 2
    /\ Len(calls) = 4
    /\ Len(searchResults.matches) = 2
    /\ enhancedQuery # question

\* C20: a question is read only when the process is at the prompt, every
\* earlier turn has returned from its generation and has its two entries in
\* the history; while a turn is under way it is the only one.
C20_TurnsDoNotOverlap ==
    [][/\ InTurn => turns = completed + 1
       /\ turns' # turns =>
             /\ pc = "prompt"
             /\ completed = turns
             /\ Len(History) = 2 * turns
             /\ pc' = "awaitRewrite"
             /\ turns' = turns + 1]_vars

C20_Witness ==
    /\ pc = "awaitRewrite"
    /\ turns = 2
    /\ completed = 1
    /\ Len(History) = 3

\* C21: in every turn, the first one with an empty History included, the
\* first call is the one to the rewriting model, and it is given the History
\* of the completed turns followed by one user turn that holds the question as
\* typed: 2*N + 1 entries in turn N + 1.
C21_RewriteInput ==
    turns > 0 =>
        /\ Len(calls) >= 1
        /\ calls[1].stage = "rewrite"
        /\ Len(calls[1].request) = 2 * (turns - 1) + 1
        /\ calls[1].request = Append(histBefore, UserTurn(question))
        /\ \A i \in 1..(turns - 1) :
              /\ calls[1].request[2 * i - 1].role = "user"
              /\ calls[1].request[2 * i].role = "model"
        /\ pc = "awaitRewrite" => History = calls[1].request

C21_Witness ==
    /\ pc = "awaitRewrite"
    /\ turns = 2
    /\ Len(calls[1].request) = 3
    /\ calls[1].request[3] = UserTurn("how fast is it")

\* C22: when the rewriting model has answered and transformQuery returns the
\* rewritten question, History is entry for entry what it was when
\* transformQuery was called.
C22_RewriteLeavesHistory ==
    [][(pc = "awaitRewrite" /\ pc' = "awaitEmbed") =>
          /\ enhancedQuery' \in Rewrites
          /\ Len(History') = Len(histBefore)
          /\ \A i \in 1..Len(histBefore) : History'[i] = histBefore[i]]_vars

C22_Witness ==
    /\ pc = "awaitEmbed"
    /\ turns = 2
    /\ Len(History) = 2
    /\ History = histBefore
    /\ enhancedQuery # question

\* C23: while index.js runs, at most 5 requests to the embedding model are in
\* flight at any moment, however many chunks the document makes.
C23_BoundedConcurrency ==
    /\ Cardinality(embedding) <= 5
    /\ embedding \cap embedded = {}
    /\ embedding \cup embedded \subseteq 1..Len(chunkDocs)

C23_Witness ==
    /\ ipc = "awaitStore"
    /\ Len(chunkDocs) > 5
    /\ Cardinality(embedding) = 5
    /\ Cardinality(embedded) < Len(chunkDocs) - 5

\* C24: with chunkSize S > 0 and 0 <= overlap O < S the splitter comes to an
\* end on every document: the scan starts at offset 0, every step moves the
\* offset on by S - O >= 1, no chunk is made at an offset at or past the end
\* of the text, and the scan stops at the first such offset; so there are no
\* more chunks than the text has characters.
C24_ChunkerTerminates ==
    Chunked =>
        LET n == Len(chunkDocs)
            step == chunkSize - chunkOverlap
        IN  /\ step >= 1
            /\ n >= 1 => ChunkStart(1) = 0
            /\ \A k \in 1..(n - 1) : ChunkStart(k + 1) = ChunkStart(k) + step
            /\ \A k \in 1..n : ChunkStart(k) < Len(rawDocs)
            /\ n * step >= Len(rawDocs)
            /\ n <= Len(rawDocs)

C24_Witness ==
    /\ Chunked
    /\ Len(chunkDocs) >= 3
    /\ chunkOverlap >= 1
    /\ ChunkStart(Len(chunkDocs)) + chunkSize - chunkOverlap = Len(rawDocs)

\* C25: a call that fails in a turn comes out as a ServiceError that names
\* the stage that failed, one of rewrite, embed, retrieve and generate; and
\* nothing is tried again: no call is made twice in a turn.
C25_FailureNamesStage ==
    /\ \A i, j \in 1..Len(calls) : calls[i].stage = calls[j].stage => i = j
    /\ failedStage # None =>
          /\ failedStage \in {"rewrite", "embed", "retrieve", "generate"}
          /\ thrown.name = "ServiceError"
          /\ "stage" \in DOMAIN thrown
          /\ thrown.stage = failedStage

\* C26: the embedding model query.js embeds the question with, in every turn,
\* is the one index.js embedded the chunks with, and so the vector of the
\* question has as many entries as every vector in the index.
C26_SameEmbeddingModel ==
    /\ (embeddingModel # None /\ ingestModel # None) => embeddingModel = ingestModel
    /\ queryVector # <<>> =>
          \A i \in 1..Len(index) : Len(index[i].values) = Len(queryVector)

C26_Witness ==
    /\ completed = 2
    /\ embeddingModel = "text-embedding-004"
    /\ ingestModel = "text-embedding-004"
    /\ Len(index) >= 2
    /\ Len(queryVector) = Len(index[2].values)

C28_CompletedTurnsKept ==
    [][/\ Len(History) >= 2 * completed
       /\ Len(History') >= 2 * completed
       /\ SubSeq(History', 1, 2 * completed) = SubSeq(History, 1, 2 * completed)
       /\ completed' # completed =>
             /\ completed' = completed + 1
             /\ Len(History') = 2 * completed + 2
       /\ Len(History') < Len(History) =>
             /\ pc = "awaitRewrite"
             /\ History = Append(History', UserTurn(question))
             /\ Len(History') = 2 * completed]_vars

C28_Witness ==
    /\ AtPrompt
    /\ completed = 2
    /\ Len(histBefore) = 2
    /\ SubSeq(History, 1, 2) = histBefore
    /\ TextOf(History[3]) # question

\* The table of the MCP server holds a transport under the sessionId of every
\* SSE connection that is open, and nothing else.
TableTracksConnections ==
    /\ {t.sessionId : t \in transports} = connections
    /\ \A t \in transports : t = Transport(t.sessionId)

\* C29: whatever GET /sse requests, closed connections and POST /messages
\* requests there were, transports.sse holds exactly the sessionIds of the SSE
\* connections still open; and a POST /messages whose sessionId is not the one
\* of an open connection is answered 400 without any transport being called.
C29_UnknownSessionRefused ==
    /\ TableTracksConnections
    /\ \A i \in 1..Len(posts) :
          ~posts[i].open => (posts[i].status = 400 /\ ~posts[i].handled)

\* C30: the loop of runAiAgent ends at the first answer of the model that
\* holds no function call; every iteration before it calls exactly one tool,
\* the first function call of the answer, and pushes exactly one function
\* response.
C30_AgentLoopEnds ==
    \A i \in 1..Len(steps) :
        /\ steps[i].result.functionCalls = <<>> =>
              /\ i = Len(steps)
              /\ apc = "prompt"
        /\ i < Len(steps) =>
              /\ steps[i].called = <<steps[i].result.functionCalls[1]>>
              /\ Len(steps[i].pushed) = 1
              /\ steps[i].pushed[1].role = "function"

====
